---- MODULE Spec2Model ----
(***************************************************************************)
(* A model of server/app.py of AdSage: the FAISS-backed vector store of    *)
(* BedrockProcessor (store_embedding, search_similar_embeddings), the same *)
(* store under concurrent requests, the image-generation batch loop        *)
(* (generate_images), the text functions (_clean_text, generate_embedding, *)
(* construct_image_prompt) and the two routes of create_flask_app.         *)
(*                                                                         *)
(* Conventions.                                                            *)
(*  - A Python value that may be None is a set with at most one element:   *)
(*    None is {} and a value x is {x}.                                     *)
(*  - float32 arithmetic is fixed-point arithmetic with Scale units per    *)
(*    1.0; a float32 vector is a record [nan, x]: 0/0 makes every          *)
(*    component NaN at once, so one flag per vector is enough.             *)
(*  - In the store a text is modelled by its length (only slicing is       *)
(*    applied to it there), a URL by an opaque identifier; the text        *)
(*    functions work on a str as a sequence of runs of characters.         *)
(*  - FAISS labels are 0-based as in the library; TLA+ sequences are       *)
(*    1-based, so label l is position l + 1 of vector_index and            *)
(*    vector_metadata.                                                     *)
(***************************************************************************)
EXTENDS Integers, Sequences, FiniteSets, TLC

\* ------------------------------------------------------------ bounds
\* Records the store may hold before the model stops inserting.
MaxRecords == 2
\* Fixed-point units per 1.0.
Scale == 100
\* Requests that run store_embedding concurrently.
NumThreads == 2
\* num_images is drawn from 0..MaxImages.
MaxImages == 3
\* Seeds are drawn from 0..MaxSeed (0..2147483647 in the source).
MaxSeed == 1

\* self.embedding_dimension (1536 in the source; the model keeps the check
\* len(embedding) != self.embedding_dimension and scales the number down).
embedding_dimension == 2
\* The slice bound of the metadata text, text[:1000].
MetaTextLimit == 1000

\* self.max_prompt_length, the default budget of generate_embedding.
max_prompt_length == 2048
\* The slice bounds of construct_image_prompt: context[:256], user_prompt[:128]
\* and the joined prompt[:512].
ContextLimit == 256
UserPromptLimit == 128
PromptLimit == 512
\* The character counts of the literals of construct_image_prompt:
\* "Ultra-realistic image:", "Creative direction: Professional, modern design.",
\* "Technical specs: High-quality, crisp rendering." and "Requirements: ".
LenDirective == 22
LenCreative == 48
LenTechnical == 47
LenRequirements == 14
\* The character count of 'Professional marketing design'.
LenDefaultContent == 29

\* ------------------------------------------------------------ values
None == {}
Some(x) == {x}
Val(o) == CHOOSE x \in o : TRUE

Min(a, b) == IF a <= b THEN a ELSE b

\* The pages a request may name: a URL and the length of its text, one text
\* below and one above the slice bound.
Pages == {[url |-> 1, text |-> 3], [url |-> 2, text |-> MetaTextLimit + 1]}
Comp == {0, 1}
\* Arrays of the right length (the zero array among them), and one array of
\* each neighbouring wrong length.
RightDim == [1..embedding_dimension -> Comp]
WrongDim == {[i \in 1..(embedding_dimension - 1) |-> 1],
             [i \in 1..(embedding_dimension + 1) |-> 1]}
Arrays == RightDim \cup WrongDim
\* An embedding argument: None or an array.
EmbeddingArgs == {None} \cup {Some(a) : a \in Arrays}
\* top_k: 0 (which FAISS refuses), and up to one more than the store can hold.
TopKs == 0..(MaxRecords + 1)

\* ------------------------------------------------------------ numpy
RECURSIVE SumSq(_, _)
SumSq(v, n) == IF n = 0 THEN 0 ELSE v[n] * v[n] + SumSq(v, n - 1)

RECURSIVE SqrtSearch(_, _, _)
SqrtSearch(n, lo, hi) ==
    IF lo >= hi THEN lo
    ELSE LET mid == (lo + hi + 1) \div 2
         IN  IF mid * mid <= n THEN SqrtSearch(n, mid, hi)
             ELSE SqrtSearch(n, lo, mid - 1)

\* np.linalg.norm(v), in fixed point.
Norm(v) ==
    LET s == SumSq(v, Len(v)) * Scale * Scale
    IN  SqrtSearch(s, 0, s)

NaNVec == [nan |-> TRUE, x |-> [i \in 1..embedding_dimension |-> 0]]

\* The first n components of v, each divided by norm.
RECURSIVE DivideBy(_, _, _)
DivideBy(v, norm, n) ==
    IF n = 0 THEN <<>>
    ELSE Append(DivideBy(v, norm, n - 1), (v[n] * Scale * Scale) \div norm)

\* v / np.linalg.norm(v): numpy divides by a zero norm without raising (a
\* RuntimeWarning is all) and 0/0 is NaN in every component.
Normalize(v) ==
    LET norm == Norm(v)
    IN  IF norm = 0 THEN NaNVec
        ELSE [nan |-> FALSE, x |-> DivideBy(v, norm, Len(v))]

\* ------------------------------------------------------------ FAISS IndexFlatL2
RECURSIVE SumSqDiff(_, _, _)
SumSqDiff(a, b, n) ==
    IF n = 0 THEN 0 ELSE (a[n] - b[n]) * (a[n] - b[n]) + SumSqDiff(a, b, n - 1)

\* The squared L2 distance of two stored vectors: None stands for NaN.
L2sqr(a, b) ==
    IF a.nan \/ b.nan THEN None ELSE Some(SumSqDiff(a.x, b.x, Len(a.x)))

\* The distances of q to the first n vectors of xb.
RECURSIVE Distances(_, _, _)
Distances(xb, q, n) ==
    IF n = 0 THEN <<>> ELSE Append(Distances(xb, q, n - 1), L2sqr(xb[n], q))

\* The distance FAISS reports beside the label -1 (FLT_MAX): above every distance
\* of two unit vectors.
FltMax == 4 * Scale * Scale + 1

\* The k best of the candidate positions cand by increasing distance, ties by
\* increasing position, padded with label -1 at distance FLT_MAX.
RECURSIVE Nearest(_, _, _)
Nearest(dis, cand, k) ==
    IF k = 0 THEN <<>>
    ELSE IF cand = {} THEN <<[D |-> FltMax, I |-> 0 - 1]>> \o Nearest(dis, cand, k - 1)
    ELSE LET best == CHOOSE i \in cand : \A j \in cand :
                        \/ Val(dis[i]) < Val(dis[j])
                        \/ Val(dis[i]) = Val(dis[j]) /\ i <= j
         IN  <<[D |-> Val(dis[best]), I |-> best - 1]>> \o Nearest(dis, cand \ {best}, k - 1)

\* index.search(q, k) for k >= 1: the k nearest stored vectors as (distance,
\* label) pairs. A NaN distance never compares below the result heap's
\* threshold, so such a vector is never reported.
IndexSearch(xb, q, k) ==
    LET dis == Distances(xb, q, Len(xb))
    IN  Nearest(dis, {i \in 1..Len(xb) : dis[i] /= None}, k)

\* 1 / (1 + distance), in fixed point.
Score(d) == (Scale * Scale * Scale) \div (Scale * Scale + d)

\* ------------------------------------------------------------ str
\* A str is a sequence of runs [c, n]: the first n characters of the text c
\* repeated without end. A run of one character repeated is [c |-> "u", n |-> 5];
\* a literal of the source is one run of its own text, and a prefix of it is
\* the same run with a smaller n. The only operations the source applies are
\* concatenation, joining, the prefix slice s[:k] and _clean_text.
Str(c, n) == IF n <= 0 THEN <<>> ELSE <<[c |-> c, n |-> n]>>

RECURSIVE StrLen(_)
StrLen(s) == IF s = <<>> THEN 0 ELSE Head(s).n + StrLen(Tail(s))

\* a + b; neighbouring runs of the same character are one run.
Cat(a, b) ==
    IF a = <<>> THEN b
    ELSE IF b = <<>> THEN a
    ELSE IF a[Len(a)].c = b[1].c
         THEN SubSeq(a, 1, Len(a) - 1)
              \o <<[c |-> b[1].c, n |-> a[Len(a)].n + b[1].n]>>
              \o Tail(b)
         ELSE a \o b

\* s[:k] for k >= 0.
RECURSIVE Take(_, _)
Take(s, k) ==
    IF k <= 0 \/ s = <<>> THEN <<>>
    ELSE IF Head(s).n <= k THEN Cat(<<Head(s)>>, Take(Tail(s), k - Head(s).n))
    ELSE <<[c |-> Head(s).c, n |-> k]>>

\* " ".join(components)
RECURSIVE Join(_)
Join(components) ==
    IF components = <<>> THEN <<>>
    ELSE IF Len(components) = 1 THEN components[1]
    ELSE Cat(Cat(components[1], Str(" ", 1)), Join(Tail(components)))

\* unidecode: an ASCII character is kept; the one non-ASCII character of the
\* model, "ß", becomes the two characters "ss".
RECURSIVE unidecode(_)
unidecode(s) ==
    IF s = <<>> THEN <<>>
    ELSE Cat(IF Head(s).c = "ß" THEN Str("s", 2 * Head(s).n) ELSE <<Head(s)>>,
             unidecode(Tail(s)))

IsSpace(r) == r.c \in {" ", "\n"}

\* ' '.join(s.strip().split()): the words of s with one space between them.
\* out is the text built so far, pending says a space is owed before the next
\* word.
RECURSIVE JoinWords(_, _, _)
JoinWords(s, out, pending) ==
    IF s = <<>> THEN out
    ELSE IF IsSpace(Head(s)) THEN JoinWords(Tail(s), out, out /= <<>>)
    ELSE JoinWords(Tail(s),
                   Cat(IF pending THEN Cat(out, Str(" ", 1)) ELSE out, <<Head(s)>>),
                   FALSE)

\* _clean_text: str(text or '') makes None the empty str.
_clean_text(text) ==
    JoinWords(unidecode(IF text = None THEN <<>> ELSE Val(text)), <<>>, FALSE)

\* The literals of construct_image_prompt and of the route.
Directive == Str("Ultra-realistic image:", LenDirective)
Creative == Str("Creative direction: Professional, modern design.", LenCreative)
Technical == Str("Technical specs: High-quality, crisp rendering.", LenTechnical)
Requirements == Str("Requirements: ", LenRequirements)
DefaultContent == Str("Professional marketing design", LenDefaultContent)

\* A variant of prompt_components that puts the requirements first.
prompt_components_UserFirst(context, user_prompt) ==
    LET ctx == Take(_clean_text(context), ContextLimit)
        up == Take(_clean_text(user_prompt), UserPromptLimit)
    IN  (IF up /= <<>> THEN <<Cat(Requirements, up)>> ELSE <<>>)
        \o <<Directive, ctx, Creative, Technical>>

\* A variant of prompt_components that does not slice the context.
prompt_components_ContextUncut(context, user_prompt) ==
    LET ctx == _clean_text(context)
        up == Take(_clean_text(user_prompt), UserPromptLimit)
    IN  <<Directive, ctx, Creative, Technical>>
        \o (IF up /= <<>> THEN <<Cat(Requirements, up)>> ELSE <<>>)

\* prompt_components of construct_image_prompt, after the optional append.
prompt_components(context, user_prompt) ==
    LET ctx == Take(_clean_text(context), ContextLimit)
        up == Take(_clean_text(user_prompt), UserPromptLimit)
    IN  <<Directive, ctx, Creative, Technical>>
        \o (IF up /= <<>> THEN <<Cat(Requirements, up)>> ELSE <<>>)

\* A variant of construct_image_prompt without the slice of the joined prompt.
construct_image_prompt_Unsliced(context, user_prompt) ==
    Join(prompt_components(context, user_prompt))

construct_image_prompt(context, user_prompt) ==
    Take(Join(prompt_components(context, user_prompt)), PromptLimit)

\* The text generate_embedding puts in the request body: max_length or
\* self.max_prompt_length takes the default for None and for 0.
InputText(text, max_length) ==
    LET limit == IF max_length = None \/ Val(max_length) = 0
                 THEN max_prompt_length ELSE Val(max_length)
    IN  Take(_clean_text(text), limit)

\* What the embedding backend may do with one request: invoke_model raises (a
\* timeout is one of its exceptions), the body has no "embedding" key, or it
\* has a list of floats.
EmbeddingAnswers ==
    {[kind |-> "raise", embedding |-> <<>>], [kind |-> "no_embedding", embedding |-> <<>>]}
    \cup {[kind |-> "embedding", embedding |-> a] : a \in Arrays}

\* A variant of generate_embedding without the try/except: an exception of the
\* backend reaches the caller.
generate_embedding_NoExcept(text, max_length, answer) ==
    [inputText |-> InputText(text, max_length),
     ret |-> IF answer.kind = "raise" THEN None ELSE Some(answer.embedding),
     raised |-> answer.kind = "raise"]

\* A variant of generate_embedding that returns a zero array of the store's
\* dimension when the backend gives no embedding.
generate_embedding_ZeroOnFailure(text, max_length, answer) ==
    [inputText |-> InputText(text, max_length),
     ret |-> IF answer.kind = "embedding" THEN Some(answer.embedding)
             ELSE Some([i \in 1..embedding_dimension |-> 0]),
     raised |-> FALSE]

\* generate_embedding: the array of the answer (empty when the key is
\* missing), or None when anything in the try block raises.
generate_embedding(text, max_length, answer) ==
    [inputText |-> InputText(text, max_length),
     ret |-> IF answer.kind = "raise" THEN None ELSE Some(answer.embedding),
     raised |-> FALSE]

\* ------------------------------------------------------------ state
VARIABLES
    vector_index_none,  \* self.vector_index is None (FAISS construction failed)
    vector_index,       \* the vectors of self.vector_index, in insertion order
    vector_metadata,    \* self.vector_metadata
    inserted,           \* history: the arrays passed to the inserts that returned an id
    call,               \* history: the last completed call, with the store as it was before it
    pc,                 \* concurrent requests: where each is in store_embedding
    local,              \* concurrent requests: the locals of each store_embedding frame
    gi_pc,              \* generate_images: where the call is
    num_images,         \* generate_images: the argument
    gi_i,               \* generate_images: iterations of the for loop completed
    seed,               \* generate_images: the local seed
    generated_images,   \* generate_images: the local generated_images
    requests,           \* history: the backend requests of this call, with their responses
    seed_draws,         \* history: the calls of random.randint in this call
    req,                \* the route handlers: the request being served, and its answer
    txt,                \* the text functions: the last call, its arguments and result
    reader              \* a search_similar_embeddings call running beside an insert

store_vars == <<vector_index_none, vector_index, vector_metadata>>
hist_vars == <<inserted, call>>
thread_vars == <<pc, local>>
gen_vars == <<gi_pc, num_images, gi_i, seed, generated_images, requests, seed_draws>>
route_vars == <<req, txt, reader>>
vars == <<store_vars, hist_vars, thread_vars, gen_vars, route_vars>>

Threads == 1..NumThreads

NoCall == [op |-> "none", embedding |-> None, top_k |-> 0, ret |-> None,
           results |-> <<>>, log |-> "", raised |-> FALSE,
           index_before |-> <<>>, metadata_before |-> <<>>]

\* BedrockProcessor.__init__: the index is built empty, or its construction
\* raises and vector_index is None (vector_metadata is then never assigned, and
\* never read: both methods return before touching it).
InitStore ==
    /\ vector_index_none \in BOOLEAN
    /\ vector_index = <<>>
    /\ vector_metadata = <<>>

NoLocals == [url |-> 0, text |-> 0, embedding |-> None, embedding_normalized |-> NaNVec,
             n |-> 0, ret |-> None]

InitHist ==
    /\ inserted = <<>>
    /\ call = NoCall

InitThreads ==
    /\ pc = [t \in Threads |-> "idle"]
    /\ local = [t \in Threads |-> NoLocals]

InitGen ==
    /\ gi_pc = "idle"
    /\ num_images = 0
    /\ gi_i = 0
    /\ seed = 0
    /\ generated_images = <<>>
    /\ requests = <<>>
    /\ seed_draws = 0

\* No request is being served.
NoRequest ==
    [route |-> "none", stage |-> "idle", url |-> None, user_prompt |-> None,
     query |-> None, top_k |-> 0, content |-> <<>>, extracted |-> <<>>,
     answer |-> "", content_embedding |-> None, embedding_calls |-> 0,
     store_calls |-> 0, prompt |-> None, image_requests |-> 0, image_answer |-> "",
     images |-> <<>>, success |-> FALSE, similar_content |-> <<>>, status |-> 0,
     index_before |-> <<>>, metadata_before |-> <<>>]

NoText == [op |-> "none", context |-> None, user_prompt |-> None, text |-> None,
           max_length |-> None, result |-> <<>>]

NoReader == [pc |-> "idle", q |-> NaNVec, top_k |-> 0, found |-> <<>>, i |-> 0,
             results |-> <<>>, raced |-> FALSE]

InitRoutes ==
    /\ req = NoRequest
    /\ txt = NoText
    /\ reader = NoReader

Init == InitStore /\ InitHist /\ InitThreads /\ InitGen /\ InitRoutes

\* ------------------------------------------------------------ store_embedding
\* A variant of StoreOutcome that refuses only the arrays that are too long.
StoreOutcome_ShortAccepted(url, text, embedding) ==
    LET same == [index |-> vector_index, metadata |-> vector_metadata, ret |-> None]
    IN
    IF vector_index_none THEN
        same @@ [log |-> "IndexUninitialized"]
    ELSE IF embedding = None THEN
        same @@ [log |-> "NoneEmbedding"]
    ELSE IF Len(Val(embedding)) > embedding_dimension THEN
        same @@ [log |-> "DimensionMismatch"]
    ELSE
        [index |-> Append(vector_index, Normalize(Val(embedding))),
         metadata |-> Append(vector_metadata,
                             [url |-> url,
                              text |-> Min(text, MetaTextLimit),
                              embedding_id |-> Len(vector_metadata)]),
         ret |-> Some(Len(vector_metadata)), log |-> ""]

\* A variant of StoreOutcome that reads the metadata length for embedding_id
\* after the append instead of before it.
StoreOutcome_IdAfterAppend(url, text, embedding) ==
    LET same == [index |-> vector_index, metadata |-> vector_metadata, ret |-> None]
    IN
    IF vector_index_none THEN
        same @@ [log |-> "IndexUninitialized"]
    ELSE IF embedding = None THEN
        same @@ [log |-> "NoneEmbedding"]
    ELSE IF Len(Val(embedding)) /= embedding_dimension THEN
        same @@ [log |-> "DimensionMismatch"]
    ELSE
        [index |-> Append(vector_index, Normalize(Val(embedding))),
         metadata |-> Append(vector_metadata,
                             [url |-> url,
                              text |-> Min(text, MetaTextLimit),
                              embedding_id |-> Len(vector_metadata) + 1]),
         ret |-> Some(Len(vector_metadata)), log |-> ""]

\* The outcome of the method: the new index and metadata, the return value and
\* the message logged. Nothing in the try block raises for an array and a str
\* text, so the except clause is never entered.
StoreOutcome(url, text, embedding) ==
    LET same == [index |-> vector_index, metadata |-> vector_metadata, ret |-> None]
    IN
    IF vector_index_none THEN
        same @@ [log |-> "IndexUninitialized"]
    ELSE IF embedding = None THEN
        same @@ [log |-> "NoneEmbedding"]
    ELSE IF Len(Val(embedding)) /= embedding_dimension THEN
        same @@ [log |-> "DimensionMismatch"]
    ELSE
        LET embedding_normalized == Normalize(Val(embedding))
            index1 == Append(vector_index, embedding_normalized)
            metadata1 == Append(vector_metadata,
                                [url |-> url,
                                 text |-> Min(text, MetaTextLimit),
                                 embedding_id |-> Len(vector_metadata)])
        IN  [index |-> index1, metadata |-> metadata1,
             ret |-> Some(Len(metadata1) - 1), log |-> ""]

store_embedding(url, text, embedding) ==
    LET out == StoreOutcome(url, text, embedding)
    IN  /\ Len(out.index) <= MaxRecords
        /\ vector_index' = out.index
        /\ vector_metadata' = out.metadata
        /\ inserted' = IF out.ret = None THEN inserted
                       ELSE Append(inserted, Val(embedding))
        /\ call' = [op |-> "store", embedding |-> embedding, top_k |-> 0,
                    ret |-> out.ret, results |-> <<>>, log |-> out.log,
                    raised |-> FALSE,
                    index_before |-> vector_index,
                    metadata_before |-> vector_metadata]
        /\ UNCHANGED vector_index_none

\* ------------------------------------------------------------ search_similar_embeddings
\* The result entries of the first n kept (distance, label) pairs. distance is
\* the entry's D value, kept beside the score computed from it.
RECURSIVE ResultsOf(_, _)
ResultsOf(kept, n) ==
    IF n = 0 THEN <<>>
    ELSE Append(ResultsOf(kept, n - 1),
                [metadata |-> vector_metadata[kept[n].I + 1],
                 score |-> Score(kept[n].D),
                 distance |-> kept[n].D])

\* The body of the try block: exc names the exception it raises, if any.
SearchBody(query_embedding, top_k) ==
    IF query_embedding = None \/ Len(Val(query_embedding)) /= embedding_dimension THEN
        [results |-> <<>>, log |-> IF query_embedding = None THEN "NoneEmbedding"
                                   ELSE "DimensionMismatch", exc |-> None]
    ELSE IF top_k < 1 THEN
        \* index.search asserts k > 0
        [results |-> <<>>, log |-> "", exc |-> Some("AssertionError")]
    ELSE
        LET q == Normalize(Val(query_embedding))
            found == IndexSearch(vector_index, q, top_k)
            kept == SelectSeq(found, LAMBDA f : 0 <= f.I /\ f.I < Len(vector_metadata))
        IN  [results |-> ResultsOf(kept, Len(kept)), log |-> "", exc |-> None]

\* A variant of SearchOutcome without the try/except: an exception of the body
\* reaches the caller.
SearchOutcome_NoExcept(query_embedding, top_k) ==
    IF vector_index_none THEN
        [results |-> <<>>, log |-> "IndexUninitialized", raised |-> FALSE]
    ELSE
        LET body == SearchBody(query_embedding, top_k)
        IN  [results |-> body.results, log |-> body.log, raised |-> body.exc /= None]

\* The method: the early return on a missing index, and the try/except that
\* turns every exception of the body into a logged error and [].
SearchOutcome(query_embedding, top_k) ==
    IF vector_index_none THEN
        [results |-> <<>>, log |-> "IndexUninitialized", raised |-> FALSE]
    ELSE
        LET body == SearchBody(query_embedding, top_k)
        IN  IF body.exc /= None
            THEN [results |-> <<>>, log |-> "VectorSearchError", raised |-> FALSE]
            ELSE [results |-> body.results, log |-> body.log, raised |-> FALSE]

\* A variant of search_similar_embeddings that adds the normalized query to the
\* index before searching it.
search_adding_query(query_embedding, top_k) ==
    /\ vector_index' = IF ~vector_index_none /\ query_embedding /= None
                          /\ Len(Val(query_embedding)) = embedding_dimension
                       THEN Append(vector_index, Normalize(Val(query_embedding)))
                       ELSE vector_index
    /\ call' = [op |-> "search", embedding |-> query_embedding, top_k |-> top_k,
                ret |-> None, results |-> <<>>, log |-> "", raised |-> FALSE,
                index_before |-> vector_index,
                metadata_before |-> vector_metadata]
    /\ UNCHANGED <<vector_index_none, vector_metadata, inserted>>

search_similar_embeddings(query_embedding, top_k) ==
    LET out == SearchOutcome(query_embedding, top_k)
    IN  /\ call' = [op |-> "search", embedding |-> query_embedding, top_k |-> top_k,
                    ret |-> None, results |-> out.results, log |-> out.log,
                    raised |-> out.raised,
                    index_before |-> vector_index,
                    metadata_before |-> vector_metadata]
        /\ UNCHANGED <<vector_index_none, vector_index, vector_metadata, inserted>>

\* ------------------------------------------------------------ calls one at a time
Store ==
    /\ \E page \in Pages, embedding \in EmbeddingArgs :
          store_embedding(page.url, page.text, embedding)
    /\ UNCHANGED <<thread_vars, gen_vars, route_vars>>

Search ==
    /\ \E query_embedding \in EmbeddingArgs, top_k \in TopKs :
          search_similar_embeddings(query_embedding, top_k)
    /\ UNCHANGED <<thread_vars, gen_vars, route_vars>>

Next == Store \/ Search

Spec == Init /\ [][Next]_vars

\* ------------------------------------------------------------ store_embedding, concurrent requests
\* The server runs each request in a thread of its own and store_embedding
\* takes no lock, so the statements of two calls interleave. Each statement that
\* touches the shared index or list is one step (index.add is taken as atomic,
\* the most the library could give). Request t stores the page with URL t.

\* The embeddings of the concurrent requests: every argument but the zero
\* array, so that what the interleaving does is seen apart from what a
\* zero-norm insert does.
ConcurrentEmbeddingArgs ==
    {e \in EmbeddingArgs : e = None \/ SumSq(Val(e), Len(Val(e))) > 0}

\* Lines 107-123: the tests on the index and the embedding, and the
\* normalization; they read no shared mutable state.
c_begin(t) ==
    /\ pc[t] = "idle"
    /\ \E embedding \in ConcurrentEmbeddingArgs :
          LET rejected == \/ vector_index_none
                          \/ embedding = None
                          \/ Len(Val(embedding)) /= embedding_dimension
          IN  /\ local' = [local EXCEPT ![t] =
                    [url |-> t, text |-> 3, embedding |-> embedding,
                     embedding_normalized |->
                         IF rejected THEN NaNVec ELSE Normalize(Val(embedding)),
                     n |-> 0, ret |-> None]]
              /\ pc' = [pc EXCEPT ![t] = IF rejected THEN "done" ELSE "add"]
    /\ UNCHANGED <<store_vars, hist_vars, gen_vars, route_vars>>

\* Line 126: self.vector_index.add(...)
c_add(t) ==
    /\ pc[t] = "add"
    /\ vector_index' = Append(vector_index, local[t].embedding_normalized)
    /\ pc' = [pc EXCEPT ![t] = "len"]
    /\ UNCHANGED <<vector_index_none, vector_metadata, local, hist_vars, gen_vars, route_vars>>

\* Lines 130-132: the dict is built, reading len(self.vector_metadata)
c_len(t) ==
    /\ pc[t] = "len"
    /\ local' = [local EXCEPT ![t].n = Len(vector_metadata)]
    /\ pc' = [pc EXCEPT ![t] = "append"]
    /\ UNCHANGED <<store_vars, hist_vars, gen_vars, route_vars>>

\* Line 129: self.vector_metadata.append(...)
c_append(t) ==
    /\ pc[t] = "append"
    /\ vector_metadata' = Append(vector_metadata,
                                 [url |-> local[t].url,
                                  text |-> Min(local[t].text, MetaTextLimit),
                                  embedding_id |-> local[t].n])
    /\ pc' = [pc EXCEPT ![t] = "ret"]
    /\ UNCHANGED <<vector_index_none, vector_index, local, hist_vars, gen_vars, route_vars>>

\* Line 135: return len(self.vector_metadata) - 1
c_ret(t) ==
    /\ pc[t] = "ret"
    /\ local' = [local EXCEPT ![t].ret = Some(Len(vector_metadata) - 1)]
    /\ pc' = [pc EXCEPT ![t] = "done"]
    /\ UNCHANGED <<store_vars, hist_vars, gen_vars, route_vars>>

NextConc == \E t \in Threads : c_begin(t) \/ c_add(t) \/ c_len(t) \/ c_append(t) \/ c_ret(t)

SpecConc == Init /\ [][NextConc]_vars

\* ------------------------------------------------------------ a search beside one insert
\* One request is in store_embedding (thread 1) while another runs
\* search_similar_embeddings; the inserts made before them have returned. The
\* FAISS wrappers release the interpreter lock, so index.search can run while
\* index.add is inside the library: the library gives no guarantee for a
\* search beside an add (the add reallocates the vectors the search reads).

\* The vectors a store can hold: the normalized arrays of non-zero norm.
StoredVectors == {Normalize(a) : a \in {b \in RightDim : Norm(b) > 0}}

\* What a search may read of the index while an add writes it: the vectors
\* before the add or with the new one, each with any content.
RacedViews ==
    UNION {[1..n -> StoredVectors] : n \in {Len(vector_index), Len(vector_index) + 1}}

\* An insert that returned before the two calls began.
rw_insert ==
    /\ pc[1] = "idle" /\ reader.pc = "idle"
    /\ Len(vector_index) + 1 < MaxRecords
    /\ \E page \in Pages, a \in {b \in RightDim : Norm(b) > 0} :
          store_embedding(page.url, page.text, Some(a))
    /\ UNCHANGED <<thread_vars, gen_vars, route_vars>>

\* Line 126, index.add entered: the library starts writing the index.
w_add_enter ==
    /\ pc[1] = "add"
    /\ pc' = [pc EXCEPT ![1] = "adding"]
    /\ UNCHANGED <<store_vars, local, hist_vars, gen_vars, route_vars>>

\* Line 126, index.add returns: the vector is in the index. A process killed
\* by the search takes no further step.
w_add_exit ==
    /\ pc[1] = "adding"
    /\ reader.pc /= "crashed"
    /\ vector_index' = Append(vector_index, local[1].embedding_normalized)
    /\ pc' = [pc EXCEPT ![1] = "len"]
    /\ UNCHANGED <<vector_index_none, vector_metadata, local, hist_vars, gen_vars,
                   route_vars>>

\* Lines 237-250: the tests on the index and the query, and the normalization.
\* A top_k below 1 fails the assertion of index.search, which the except
\* clause turns into [].
r_begin ==
    /\ reader.pc \in {"idle", "done"}
    /\ \E query_embedding \in ConcurrentEmbeddingArgs, top_k \in TopKs :
          LET returns == \/ vector_index_none
                         \/ query_embedding = None
                         \/ Len(Val(query_embedding)) /= embedding_dimension
                         \/ top_k < 1
          IN  reader' = [NoReader EXCEPT
                           !.pc = IF returns THEN "done" ELSE "search",
                           !.q = IF returns THEN NaNVec
                                 ELSE Normalize(Val(query_embedding)),
                           !.top_k = top_k]
    /\ UNCHANGED <<store_vars, hist_vars, thread_vars, gen_vars, req, txt>>

\* Line 251: index.search while no add is inside the library.
r_search ==
    /\ reader.pc = "search"
    /\ pc[1] /= "adding"
    /\ reader' = [reader EXCEPT !.pc = "loop",
                                !.found = IndexSearch(vector_index, reader.q, reader.top_k)]
    /\ UNCHANGED <<store_vars, hist_vars, thread_vars, gen_vars, req, txt>>

\* Line 251: index.search while index.add is inside the library, and the
\* search completes on what it happened to read.
r_search_raced ==
    /\ reader.pc = "search"
    /\ pc[1] = "adding"
    /\ \E xb \in RacedViews :
          reader' = [reader EXCEPT !.pc = "loop", !.raced = TRUE,
                                   !.found = IndexSearch(xb, reader.q, reader.top_k)]
    /\ UNCHANGED <<store_vars, hist_vars, thread_vars, gen_vars, req, txt>>

\* Line 251: index.search while index.add is inside the library, and the
\* search reads memory the add has released: the process is killed, no
\* Python exception is raised for the except clause to catch.
r_search_crash ==
    /\ reader.pc = "search"
    /\ pc[1] = "adding"
    /\ reader' = [reader EXCEPT !.pc = "crashed", !.raced = TRUE]
    /\ UNCHANGED <<store_vars, hist_vars, thread_vars, gen_vars, req, txt>>

\* Lines 258-264: one iteration of the loop over the pairs found. label is the
\* pair's I value, kept beside the entry built from it.
r_loop ==
    /\ reader.pc = "loop"
    /\ reader.i < Len(reader.found)
    /\ LET f == reader.found[reader.i + 1]
       IN  reader' = [reader EXCEPT
                        !.i = @ + 1,
                        !.results =
                            IF 0 <= f.I /\ f.I < Len(vector_metadata)
                            THEN Append(@, [metadata |-> vector_metadata[f.I + 1],
                                            score |-> Score(f.D),
                                            distance |-> f.D,
                                            label |-> f.I])
                            ELSE @]
    /\ UNCHANGED <<store_vars, hist_vars, thread_vars, gen_vars, req, txt>>

\* Line 267: return results
r_return ==
    /\ reader.pc = "loop"
    /\ reader.i = Len(reader.found)
    /\ reader' = [reader EXCEPT !.pc = "done"]
    /\ UNCHANGED <<store_vars, hist_vars, thread_vars, gen_vars, req, txt>>

NextRW ==
    \/ rw_insert
    \/ c_begin(1) \/ w_add_enter \/ w_add_exit \/ c_len(1) \/ c_append(1) \/ c_ret(1)
    \/ r_begin \/ r_search \/ r_search_raced \/ r_search_crash \/ r_loop \/ r_return

SpecRW == Init /\ [][NextRW]_vars

\* ------------------------------------------------------------ generate_images
\* What the image backend may answer to one request: invoke_model or the
\* parsing of its body raises, the body has no "images" key, or it has a list
\* of at most two images, each empty or not.
ImagePayloads == {"", "a", "b"}
Responses ==
    {[kind |-> "raise", images |-> <<>>], [kind |-> "no_images", images |-> <<>>]}
    \cup {[kind |-> "images", images |-> l] :
            l \in {<<>>} \cup {<<x>> : x \in ImagePayloads}
                  \cup {<<x, y>> : x, y \in ImagePayloads}}
Seeds == 0..MaxSeed

\* Lines 217-220: the first image of the list that is not empty, if any.
FirstValid(images) ==
    LET valid == SelectSeq(images, LAMBDA img : img /= "")
    IN  IF valid = <<>> THEN None ELSE Some(Head(valid))

\* Lines 173-178: the prompt is built (one string, the same in every request
\* of the call), generated_images is emptied and the seed is drawn.
gi_call ==
    /\ gi_pc \in {"idle", "done"}
    /\ \E n \in 0..MaxImages : num_images' = n
    /\ \E s \in Seeds : seed' = s
    /\ seed_draws' = 1
    /\ generated_images' = <<>>
    /\ requests' = <<>>
    /\ gi_i' = 0
    /\ gi_pc' = "loop"
    /\ UNCHANGED <<store_vars, hist_vars, thread_vars, route_vars>>

\* A variant of gi_request without the try/except of lines 181 and 222: a
\* failing request ends the call with the exception.
gi_request_NoExcept ==
    /\ gi_pc = "loop"
    /\ gi_i < num_images
    /\ \E resp \in Responses :
          /\ requests' = Append(requests, [seed |-> seed, response |-> resp])
          /\ generated_images' =
                IF resp.kind = "images" /\ FirstValid(resp.images) /= None
                THEN Append(generated_images, Val(FirstValid(resp.images)))
                ELSE generated_images
          /\ gi_pc' = IF resp.kind = "raise" THEN "raised" ELSE "loop"
    /\ gi_i' = gi_i + 1
    /\ UNCHANGED <<num_images, seed, seed_draws, store_vars, hist_vars, thread_vars, route_vars>>

\* Lines 180-225: one iteration of the loop. The request carries the seed drawn
\* before the loop; an exception is logged and the loop goes on.
gi_request ==
    /\ gi_pc = "loop"
    /\ gi_i < num_images
    /\ \E resp \in Responses :
          /\ requests' = Append(requests, [seed |-> seed, response |-> resp])
          /\ generated_images' =
                IF resp.kind = "images" /\ FirstValid(resp.images) /= None
                THEN Append(generated_images, Val(FirstValid(resp.images)))
                ELSE generated_images
    /\ gi_i' = gi_i + 1
    /\ UNCHANGED <<gi_pc, num_images, seed, seed_draws, store_vars, hist_vars, thread_vars, route_vars>>

\* Lines 227-231: the loop is over; generated_images is returned.
gi_return ==
    /\ gi_pc = "loop"
    /\ gi_i = num_images
    /\ gi_pc' = "done"
    /\ UNCHANGED <<num_images, gi_i, seed, generated_images, requests, seed_draws,
                   store_vars, hist_vars, thread_vars, route_vars>>

NextGen == gi_call \/ gi_request \/ gi_return

SpecGen == Init /\ [][NextGen]_vars

\* ------------------------------------------------------------ POST /generate-ad-images
\* The server handles one request at a time here. The body is a JSON object
\* with an optional url and an optional user_prompt.
Urls == {1}
UrlArgs == {None} \cup {Some(u) : u \in Urls}
UserPromptArgs == {Some(<<>>), Some(Str("u", 5))}
\* What extract_website_content may return: '' (the fetch or the parsing
\* raised, or the page has no text), or the text of the page.
Extractions == {<<>>, Str("c", MetaTextLimit + 1)}
\* What the image backend answers to the one request of the route.
RouteResponses ==
    {r \in Responses : r.kind /= "images" \/ r.images \in {<<>>, <<"a">>, <<"", "b">>}}

\* Lines 311-316: the body is read. The model takes a request only while the
\* store has room for its record.
ga_receive ==
    /\ req.stage \in {"idle", "done"}
    /\ Len(vector_index) < MaxRecords
    /\ \E url \in UrlArgs, user_prompt \in UserPromptArgs :
          req' = [NoRequest EXCEPT !.route = "generate", !.stage = "received",
                                   !.url = url, !.user_prompt = user_prompt,
                                   !.content = DefaultContent,
                                   !.index_before = vector_index,
                                   !.metadata_before = vector_metadata]
    /\ UNCHANGED <<store_vars, hist_vars, thread_vars, gen_vars, txt, reader>>

\* Lines 318-319: content = extract_website_content(url) or content.
ga_extract ==
    /\ req.route = "generate" /\ req.stage = "received"
    /\ IF req.url /= None
       THEN \E page \in Extractions :
               req' = [req EXCEPT !.stage = "extracted", !.extracted = page,
                                  !.content = IF page /= <<>> THEN page ELSE @]
       ELSE req' = [req EXCEPT !.stage = "extracted"]
    /\ UNCHANGED <<store_vars, hist_vars, thread_vars, gen_vars, txt, reader>>

\* Line 323, and lines 341-348 for an exception of the call.
ga_embed ==
    /\ req.route = "generate" /\ req.stage = "extracted"
    /\ \E answer \in EmbeddingAnswers :
          LET r == generate_embedding(Some(req.content), None, answer)
          IN  req' = IF r.raised
                     THEN [req EXCEPT !.stage = "done", !.answer = answer.kind,
                                      !.embedding_calls = @ + 1,
                                      !.images = <<>>, !.success = FALSE,
                                      !.status = 500]
                     ELSE [req EXCEPT !.stage = "embedded", !.answer = answer.kind,
                                      !.embedding_calls = @ + 1,
                                      !.content_embedding = r.ret]
    /\ UNCHANGED <<store_vars, hist_vars, thread_vars, gen_vars, txt, reader>>

\* Lines 324-325: the record is stored when there is a URL and an array.
ga_store ==
    /\ req.route = "generate" /\ req.stage = "embedded"
    /\ IF req.url /= None /\ req.content_embedding /= None
       THEN LET out == StoreOutcome(Val(req.url), StrLen(req.content),
                                    req.content_embedding)
            IN  /\ vector_index' = out.index
                /\ vector_metadata' = out.metadata
                /\ req' = [req EXCEPT !.stage = "stored", !.store_calls = @ + 1]
       ELSE /\ req' = [req EXCEPT !.stage = "stored"]
            /\ UNCHANGED <<vector_index, vector_metadata>>
    /\ UNCHANGED <<vector_index_none, hist_vars, thread_vars, gen_vars, txt, reader>>

\* Lines 328-331: generate_images(context=content, user_prompt=user_prompt)
\* with num_images at its default, 1: the prompt is built and one request is
\* made, whose exception generate_images catches.
ga_generate ==
    /\ req.route = "generate" /\ req.stage = "stored"
    /\ \E resp \in RouteResponses :
          req' = [req EXCEPT
                    !.stage = "generated",
                    !.prompt = Some(construct_image_prompt(Some(req.content),
                                                           req.user_prompt)),
                    !.image_requests = @ + 1,
                    !.image_answer = resp.kind,
                    !.images = IF resp.kind = "images" /\ FirstValid(resp.images) /= None
                               THEN <<Val(FirstValid(resp.images))>>
                               ELSE <<>>]
    /\ UNCHANGED <<store_vars, hist_vars, thread_vars, gen_vars, txt, reader>>

\* Lines 334-339: the answer, with the status 200 of jsonify.
ga_respond ==
    /\ req.route = "generate" /\ req.stage = "generated"
    /\ req' = [req EXCEPT !.stage = "done", !.success = Len(req.images) > 0,
                          !.status = 200]
    /\ UNCHANGED <<store_vars, hist_vars, thread_vars, gen_vars, txt, reader>>

\* ------------------------------------------------------------ POST /search-similar-content
\* data.get('top_k', 3)
DefaultTopK == 3
QueryArgs == {Some(<<>>), Some(Str("q", 4))}
TopKArgs == {None} \cup {Some(k) : k \in TopKs}

\* The outcomes of `not query_embedding`: None is falsy; numpy gives the truth
\* value of a one-element array as that of its element, raises ValueError for
\* an array of several elements, and for an empty array answers False or
\* raises, depending on its version.
ArrayTruth(e) ==
    IF e = None THEN {"falsy"}
    ELSE IF Len(Val(e)) = 0 THEN {"falsy", "ValueError"}
    ELSE IF Len(Val(e)) = 1 THEN (IF Val(e)[1] = 0 THEN {"falsy"} ELSE {"truthy"})
    ELSE {"ValueError"}

\* Lines 355-357: the body is read.
sc_receive ==
    /\ req.stage \in {"idle", "done"}
    /\ \E query \in QueryArgs, top_k \in TopKArgs :
          req' = [NoRequest EXCEPT !.route = "search", !.stage = "received",
                                   !.query = query,
                                   !.top_k = IF top_k = None THEN DefaultTopK
                                             ELSE Val(top_k),
                                   !.index_before = vector_index,
                                   !.metadata_before = vector_metadata]
    /\ UNCHANGED <<store_vars, hist_vars, thread_vars, gen_vars, txt, reader>>

\* Lines 359-387: the try block and its except clause. The results of the
\* store are dicts, so result.metadata raises AttributeError for the first of
\* them.
sc_handle ==
    /\ req.route = "search" /\ req.stage = "received"
    /\ \E answer \in EmbeddingAnswers :
          LET r == generate_embedding(req.query, None, answer)
              embedded == [req EXCEPT !.stage = "done", !.answer = answer.kind,
                                      !.embedding_calls = @ + 1,
                                      !.content_embedding = r.ret]
          IN  \E truth \in ArrayTruth(r.ret) :
                 req' =
                    IF r.raised \/ truth = "ValueError"
                    THEN [embedded EXCEPT !.status = 500]
                    ELSE IF truth = "falsy"
                    THEN [embedded EXCEPT !.status = 400]
                    ELSE LET similar_results == SearchOutcome(r.ret, req.top_k).results
                         IN  IF similar_results /= <<>>
                             THEN [embedded EXCEPT !.status = 500]
                             ELSE [embedded EXCEPT !.status = 200,
                                                   !.similar_content = <<>>]
    /\ UNCHANGED <<store_vars, hist_vars, thread_vars, gen_vars, txt, reader>>

NextReq ==
    \/ ga_receive \/ ga_extract \/ ga_embed \/ ga_store \/ ga_generate \/ ga_respond
    \/ sc_receive \/ sc_handle

SpecReq == Init /\ [][NextReq]_vars

\* ------------------------------------------------------------ the text functions, called alone
\* The texts given to the functions: n characters in one word, the same after
\* blanks and before a newline and a short word, and n times the character "ß".
TextsOf(ch, lengths) ==
    {Some(Str(ch, n)) : n \in lengths}
    \cup {Some(Str(" ", 2) \o Str(ch, n) \o Str("\n", 1) \o Str(ch, 3) \o Str(" ", 1)) :
            n \in lengths \ {0}}
    \cup {Some(Str("ß", n)) : n \in lengths \ {0}}

ContextArgs ==
    {None} \cup TextsOf("c", {0, 1, ContextLimit, ContextLimit + 1})
PromptArgs ==
    {None} \cup TextsOf("u", {0, 1, UserPromptLimit - 7, UserPromptLimit - 6,
                              UserPromptLimit, UserPromptLimit + 1})
TextArgs ==
    {None} \cup TextsOf("t", {0, 6, max_prompt_length, max_prompt_length + 1})
MaxLengthArgs ==
    {None} \cup {Some(m) : m \in {0, 1, 5, max_prompt_length, 2 * max_prompt_length}}

\* construct_image_prompt(context, user_prompt)
tx_prompt ==
    /\ \E context \in ContextArgs, user_prompt \in PromptArgs :
          txt' = [NoText EXCEPT !.op = "construct_image_prompt",
                                !.context = context, !.user_prompt = user_prompt,
                                !.result = construct_image_prompt(context, user_prompt)]
    /\ UNCHANGED <<store_vars, hist_vars, thread_vars, gen_vars, req, reader>>

\* generate_embedding(text, max_length), up to the text it sends.
tx_input_text ==
    /\ \E text \in TextArgs, max_length \in MaxLengthArgs :
          txt' = [NoText EXCEPT !.op = "generate_embedding",
                                !.text = text, !.max_length = max_length,
                                !.result = InputText(text, max_length)]
    /\ UNCHANGED <<store_vars, hist_vars, thread_vars, gen_vars, req, reader>>

NextText == tx_prompt \/ tx_input_text

SpecText == Init /\ [][NextText]_vars

\* ------------------------------------------------------------ claims: the store, one call at a time
RightLen(e) == e /= None /\ Len(Val(e)) = embedding_dimension
WrongLen(e) == e /= None /\ Len(Val(e)) /= embedding_dimension
StoreUnchangedByCall ==
    /\ vector_index = call.index_before
    /\ vector_metadata = call.metadata_before
IsPrefix(a, b) == Len(a) <= Len(b) /\ SubSeq(b, 1, Len(a)) = a

\* C1, as stated: an insert or a query with an array of the wrong length ends
\* with the dimension-mismatch error and leaves the index and the metadata as
\* they were.
C1_WrongDimensionIsDimensionMismatch ==
    (call.op \in {"store", "search"} /\ WrongLen(call.embedding)) =>
        /\ call.log = "DimensionMismatch"
        /\ call.ret = None /\ call.results = <<>> /\ ~call.raised
        /\ StoreUnchangedByCall

\* C1, amended: on a store whose index was built, an insert or a query with an
\* array of the wrong length ends with the dimension-mismatch error; on a store
\* whose index construction failed it ends with the index-uninitialized
\* warning. Either way it returns no record, raises nothing and leaves the
\* index and the metadata as they were.
C1_WrongDimensionRejected ==
    (call.op \in {"store", "search"} /\ WrongLen(call.embedding)) =>
        /\ call.log = IF vector_index_none THEN "IndexUninitialized"
                      ELSE "DimensionMismatch"
        /\ call.ret = None /\ call.results = <<>> /\ ~call.raised
        /\ StoreUnchangedByCall

\* C1 witness: an insert of a wrong-length array was refused by a store that
\* already holds a record.
C1_Witness ==
    /\ call.op = "store" /\ WrongLen(call.embedding)
    /\ call.log = "DimensionMismatch"
    /\ Len(vector_metadata) >= 1

\* C2: with calls made one at a time, the metadata entry at position i carries
\* embedding_id i, the index holds as many vectors as there are metadata
\* entries, an entry once written is never rewritten (so no id is given twice),
\* and a successful insert returns the record count from before it.
C2_SequentialIdsArePositions ==
    /\ Len(vector_index) = Len(vector_metadata)
    /\ \A i \in 1..Len(vector_metadata) : vector_metadata[i].embedding_id = i - 1
    /\ \A i, j \in 1..Len(vector_metadata) :
          vector_metadata[i].embedding_id = vector_metadata[j].embedding_id => i = j
    /\ IsPrefix(call.metadata_before, vector_metadata)
    /\ IsPrefix(call.index_before, vector_index)
    /\ (call.op = "store" /\ call.ret /= None) =>
          /\ Val(call.ret) = Len(call.metadata_before)
          /\ Len(vector_metadata) = Len(call.metadata_before) + 1
          /\ vector_metadata[Len(vector_metadata)].embedding_id = Val(call.ret)

\* C2 witness: a second insert succeeded and returned 1.
C2_Witness ==
    /\ call.op = "store" /\ call.ret = Some(1)
    /\ Len(vector_metadata) = 2

\* C4: a query with an array that was inserted before, top_k >= 1, returns a
\* non-empty result whose first entry is at distance 0 (the top score).
C4_SelfRetrievalRanksFirst ==
    (/\ call.op = "search" /\ call.top_k >= 1 /\ call.embedding /= None
     /\ \E i \in 1..Len(inserted) : inserted[i] = Val(call.embedding)) =>
        /\ call.results /= <<>>
        /\ call.results[1].distance = 0
        /\ call.results[1].score = Score(0)

\* C5: a query with a right-length array and any top_k on a store with no
\* record, or on a store whose index construction failed, returns the empty
\* sequence and raises nothing; an insert into a store whose index construction
\* failed returns no record and raises nothing.
C5_ColdStoreFailsSoft ==
    /\ (/\ call.op = "search" /\ RightLen(call.embedding)
        /\ (vector_index_none \/ Len(call.metadata_before) = 0)) =>
           (call.results = <<>> /\ ~call.raised)
    /\ (call.op = "store" /\ vector_index_none) =>
           (call.ret = None /\ ~call.raised /\ StoreUnchangedByCall)

\* C5 witness: a query with top_k = 0, which FAISS refuses, on a built and
\* empty store.
C5_Witness ==
    /\ call.op = "search" /\ RightLen(call.embedding)
    /\ ~vector_index_none /\ Len(vector_metadata) = 0
    /\ call.log = "VectorSearchError"

\* C6: a query with a right-length array and top_k >= 1 returns exactly
\* min(top_k, record count) results, by non-decreasing distance and
\* non-increasing score, each carrying the metadata entry at the position of
\* the vector it matched.
C6_QueryReturnsMinTopKCount ==
    (call.op = "search" /\ RightLen(call.embedding) /\ call.top_k >= 1) =>
        /\ Len(call.results) = Min(call.top_k, Len(vector_metadata))
        /\ \A j \in 1..(Len(call.results) - 1) :
              /\ call.results[j].distance <= call.results[j + 1].distance
              /\ call.results[j].score >= call.results[j + 1].score
        /\ \A j \in 1..Len(call.results) :
              LET p == call.results[j].metadata.embedding_id + 1
              IN  /\ p \in 1..Len(vector_metadata)
                  /\ call.results[j].metadata = vector_metadata[p]
                  /\ L2sqr(vector_index[p], Normalize(Val(call.embedding)))
                        = Some(call.results[j].distance)

\* C7: a query, successful or failed, leaves the index and the metadata as they
\* were, and a query repeated with the same array and top_k right after a query
\* returns the same ordered results.
C7_QueryReadOnlyIdempotent ==
    [][call'.op = "search" =>
          /\ UNCHANGED store_vars
          /\ (/\ call.op = "search"
              /\ call'.embedding = call.embedding
              /\ call'.top_k = call.top_k) => call'.results = call.results]_vars

\* C7 witness: a query returned two results.
C7_Witness ==
    /\ call.op = "search"
    /\ Len(call.results) = 2

\* C8: an insert of a right-length array of norm zero into a built store fails
\* with InvalidVector: no vector is added and no metadata entry is appended.
C8_ZeroNormInsertRejected ==
    (/\ call.op = "store" /\ ~vector_index_none /\ RightLen(call.embedding)
     /\ Norm(Val(call.embedding)) = 0) =>
        /\ call.log = "InvalidVector"
        /\ call.ret = None
        /\ StoreUnchangedByCall

\* ------------------------------------------------------------ claims: concurrent inserts
AllDone == \A t \in Threads : pc[t] = "done"

\* C3: with store_embedding run by concurrent requests, the metadata entry at
\* position i always describes the vector at index position i (the URL at i is
\* the URL of the request whose normalized embedding is at i), no two entries
\* carry the same embedding_id, and once every request has returned no insert
\* is lost: the index and the metadata hold one record per accepted request.
C3_ConcurrentInsertsSerialized ==
    /\ \A i \in 1..Len(vector_metadata) :
          /\ i <= Len(vector_index)
          /\ vector_index[i] = local[vector_metadata[i].url].embedding_normalized
    /\ \A i, j \in 1..Len(vector_metadata) :
          vector_metadata[i].embedding_id = vector_metadata[j].embedding_id => i = j
    /\ AllDone =>
          LET accepted == {t \in Threads : local[t].ret /= None}
          IN  /\ Len(vector_index) = Cardinality(accepted)
              /\ Len(vector_metadata) = Cardinality(accepted)
              /\ \A t, u \in accepted : local[t].ret = local[u].ret => t = u

\* ------------------------------------------------------------ claims: generate_images
\* A request succeeded with a non-empty image.
Succeeded(r) ==
    /\ r.response.kind = "images"
    /\ \E j \in 1..Len(r.response.images) : r.response.images[j] /= ""

\* The first non-empty image of each of the first n requests that succeeded,
\* in request order.
RECURSIVE ImagesOfSucceeded(_, _)
ImagesOfSucceeded(reqs, n) ==
    IF n = 0 THEN <<>>
    ELSE LET imgs == reqs[n].response.images
             first == CHOOSE j \in 1..Len(imgs) :
                         imgs[j] /= "" /\ \A k \in 1..(j - 1) : imgs[k] = ""
         IN  IF Succeeded(reqs[n])
             THEN Append(ImagesOfSucceeded(reqs, n - 1), imgs[first])
             ELSE ImagesOfSucceeded(reqs, n - 1)

\* C9: generate_images never ends with an exception, and when it returns it
\* has issued exactly num_images backend requests, whichever of them failed,
\* and returns exactly one image per request that succeeded with a non-empty
\* image (that request's first non-empty image, in request order): the empty
\* list when every request failed.
C9_PartialFailureTolerantBatch ==
    /\ gi_pc /= "raised"
    /\ gi_pc = "done" =>
          /\ Len(requests) = num_images
          /\ Len(generated_images)
                = Cardinality({i \in 1..Len(requests) : Succeeded(requests[i])})
          /\ generated_images = ImagesOfSucceeded(requests, Len(requests))
          /\ (\A i \in 1..Len(requests) : ~Succeeded(requests[i]))
                => generated_images = <<>>

\* C9 witness: a call with num_images = 3 returned 2 images, one of its three
\* requests having raised.
C9_Witness ==
    /\ gi_pc = "done" /\ num_images = 3
    /\ Cardinality({i \in 1..Len(requests) : requests[i].response.kind = "raise"}) = 1
    /\ Len(generated_images) = 2

\* C10: a call with num_images >= 2 draws one seed per backend request.
C10_SeedDrawnPerRequest ==
    (gi_pc = "done" /\ num_images >= 2) => seed_draws = num_images

\* ------------------------------------------------------------ claims: the routes
\* The runs of sub are runs of s, in a row.
Occurs(sub, s) ==
    \E i \in 1..(Len(s) + 1) :
        i + Len(sub) - 1 <= Len(s) /\ SubSeq(s, i, i + Len(sub) - 1) = sub

GenerateDone == req.route = "generate" /\ req.stage = "done"
StoreUnchangedByRequest ==
    vector_index = req.index_before /\ vector_metadata = req.metadata_before

\* C11: every POST /generate-ad-images request, whatever the extraction, the
\* embedding, the storage and the image request do, reaches image generation
\* with a prompt that is not empty (built from the default content when the
\* extraction gave nothing) and is answered with status 200; without an image
\* the answer is 200 with images = [] and success = false, and success is true
\* exactly when images is not empty.
C11_GenerateAlwaysAnswers200 ==
    GenerateDone =>
        /\ req.status = 200
        /\ req.image_requests = 1
        /\ req.prompt /= None /\ StrLen(Val(req.prompt)) > 0
        /\ (req.extracted = <<>> => /\ req.content = DefaultContent
                                    /\ Occurs(DefaultContent, Val(req.prompt)))
        /\ req.success = (req.images /= <<>>)

\* A request with a URL whose extraction, embedding call and image request all
\* failed, and that was answered 200 with no image.
C11_Witness ==
    /\ GenerateDone
    /\ req.url /= None /\ req.extracted = <<>>
    /\ req.answer = "raise" /\ req.image_answer = "raise"
    /\ req.status = 200 /\ req.images = <<>> /\ ~req.success

\* C12: a POST /generate-ad-images request without a URL skips the embedding
\* and the storage: the embedding backend is not called and no record is
\* inserted, and the request goes on to the prompt and the image request.
C12_NoUrlSkipsEmbedding ==
    (GenerateDone /\ req.url = None) =>
        /\ req.embedding_calls = 0
        /\ req.store_calls = 0
        /\ StoreUnchangedByRequest
        /\ req.image_requests = 1

\* C13: when the embedding backend call of a POST /generate-ad-images request
\* fails (it raises, a timeout included, or answers without an embedding), the
\* request inserts nothing, the index vectors and the metadata entries being
\* what they were before it, and the image request is still made.
C13_FailedEmbeddingStoresNothing ==
    (GenerateDone /\ req.answer \in {"raise", "no_embedding"}) =>
        /\ StoreUnchangedByRequest
        /\ req.image_requests = 1

\* A request with a URL, on a store whose index was built, whose embedding
\* answer had no embedding: store_embedding was called with the empty array.
C13_Witness ==
    /\ GenerateDone
    /\ ~vector_index_none
    /\ req.url /= None /\ req.answer = "no_embedding"
    /\ req.content_embedding = Some(<<>>) /\ req.store_calls = 1
    /\ StoreUnchangedByRequest
    /\ req.image_requests = 1

SearchDone == req.route = "search" /\ req.stage = "done"

\* C14: POST /search-similar-content answers 400 when the embedding of the
\* query could not be generated; otherwise it answers 200 with similar_content
\* holding one entry per result of the store query made with the requested
\* top_k, in the order of the query; the request never changes the store.
C14_SearchAnswers200WithResults ==
    SearchDone =>
        /\ (req.answer = "raise" => req.status = 400)
        /\ ((req.answer = "embedding" /\ RightLen(req.content_embedding)
             /\ Norm(Val(req.content_embedding)) > 0 /\ ~vector_index_none) =>
                /\ req.status = 200
                /\ Len(req.similar_content)
                      = Len(SearchOutcome(req.content_embedding, req.top_k).results))
        /\ StoreUnchangedByRequest

\* ------------------------------------------------------------ claims: the text functions
PromptBuilt == txt.op = "construct_image_prompt"
\* The two inputs as construct_image_prompt uses them, cleaned and sliced.
CtxUsed == Take(_clean_text(txt.context), ContextLimit)
UpUsed == Take(_clean_text(txt.user_prompt), UserPromptLimit)
\* The first run of s that is (a prefix of) the text c; 0 when there is none.
Pos(s, c) ==
    IF \E i \in 1..Len(s) : s[i].c = c
    THEN CHOOSE i \in 1..Len(s) : s[i].c = c /\ \A j \in 1..(i - 1) : s[j].c /= c
    ELSE 0
\* What follows the run at position i of s.
After(s, i) == SubSeq(s, i + 1, Len(s))

\* C15: for every context and user prompt, the prompt construct_image_prompt
\* returns has at most 512 characters.
C15_PromptWithinLimit ==
    PromptBuilt => StrLen(txt.result) <= PromptLimit

\* A prompt that was cut: its components joined are longer than the limit.
C15_Witness ==
    /\ PromptBuilt
    /\ StrLen(Join(prompt_components(txt.context, txt.user_prompt))) > PromptLimit
    /\ StrLen(txt.result) = PromptLimit

UserPromptRoom ==
    PromptLimit - (LenDirective + 1 + ContextLimit + 1 + LenCreative + 1
                   + LenTechnical + 1 + LenRequirements)

C18_InputTextWithinBudget ==
    (txt.op = "generate_embedding" /\ txt.max_length /= None) =>
        /\ StrLen(txt.result) <= Val(txt.max_length)
        /\ StrLen(_clean_text(txt.text)) <= Val(txt.max_length) =>
              txt.result = _clean_text(txt.text)

\* ------------------------------------------------------------ claims: a search beside one insert
\* The insert in flight has read the metadata length that becomes its
\* embedding_id.
InFlightAppended ==
    pc[1] \in {"append", "ret"} \/ (pc[1] = "done" /\ local[1].ret /= None)

====
